---- MODULE Spec2Model ----
(***************************************************************************)
(* tenant_core: the tenant resolution and authorization pipeline           *)
(* (TenantMiddleware.__call__), the thread-local tenant context, the       *)
(* subscription guard (Tenant.verify_subscription), the plan-limit guard   *)
(* (Tenant.verify_limit) and the role authorizer (permissions.py).         *)
(*                                                                         *)
(* A request is processed in steps; between two steps of one request any   *)
(* step of a request on another worker thread may run.  A request          *)
(* attribute supplied by the client or by a collaborator (path,            *)
(* credential, header, resolver answer, subscription rows) is drawn when   *)
(* the code first reads it.                                                *)
(***************************************************************************)
EXTENDS Naturals, Sequences, FiniteSets

\* ------------------------------------------------------------------ bounds

\* Dates are day numbers 0..MaxDay.
MaxDay == 2
\* A tenant keeps at most MaxSubs subscription rows in the subscription guard's check.
MaxSubs == 2
\* Plan limits and record counts range over 0..MaxLimit and 0..MaxLimit+1.
MaxLimit == 2
\* A user has at most MaxMemberships membership rows.
MaxMemberships == 2

\* ------------------------------------------------------------------ values

\* Python's None, where the other values are objects (records).
None == [py |-> "None"]
\* Python's None, where the other values are strings.
NoneStr == "None"
\* A thread-local or request attribute that was never assigned.
NoAttr == [py |-> "unset"]

Days == 0 .. MaxDay

\* ---------------------------------------------------------------- context.py

\* _thread_locals: one attribute namespace per worker thread.
Threads == {"w1", "w2"}

set_current_tenant_noop(locals, w, tenant) == locals

set_current_tenant_shared(locals, w, tenant) == [u \in DOMAIN locals |-> tenant]

set_current_tenant(locals, w, tenant) == [locals EXCEPT ![w] = tenant]

get_current_tenant(locals, w) == IF locals[w] = NoAttr THEN None ELSE locals[w]

clear_current_tenant_noop(locals, w) == locals

clear_current_tenant(locals, w) == [locals EXCEPT ![w] = None]

\* ---------------------------------------------------------------- exceptions.py

TenantNotFound == "TenantNotFound"
TenantInactive == "TenantInactive"
SubscriptionExpired == "SubscriptionExpired"
SubscriptionSuspended == "SubscriptionSuspended"
PlanLimitExceeded == "PlanLimitExceeded"
\* Any exception that is none of the above (NotImplementedError, a database error, ...).
Fault == "Fault"

ModeledExceptions == {TenantNotFound, TenantInactive, SubscriptionExpired, SubscriptionSuspended}

\* ---------------------------------------------------------------- models.py: Subscription

STATUS_CHOICES == {"active", "expired", "suspended", "cancelled"}

SubscriptionRows == [status : STATUS_CHOICES, start_date : Days, end_date : Days]

\* The sets of at most n rows.
RECURSIVE RowSets(_)
RowSets(n) ==
    IF n = 0 THEN {{}}
    ELSE LET smaller == RowSets(n - 1)
         IN  smaller \cup {S \cup {s} : S \in smaller, s \in SubscriptionRows}

is_active_strict(sub, today) == sub.status = "active" /\ sub.end_date > today

\* Subscription.is_active
is_active(sub, today) == sub.status = "active" /\ sub.end_date >= today

\* Subscription.verify_access: NoneStr when it returns, else the exception raised.
verify_access(sub, today) ==
    IF sub.status = "suspended" THEN SubscriptionSuspended
    ELSE IF sub.status = "cancelled" THEN SubscriptionSuspended
    ELSE IF ~is_active(sub, today) THEN SubscriptionExpired
    ELSE NoneStr

\* ---------------------------------------------------------------- models.py: Tenant

\* Tenant.get_active_subscription: subscriptions.filter(status="active").first() under
\* Meta.ordering = ["-start_date"].  The rows the query may return: the database
\* breaks a tie on start_date either way.  The empty set stands for None.
get_active_subscription(subs) ==
    LET active == {s \in subs : s.status = "active"}
    IN  {s \in active : \A o \in active : o.start_date <= s.start_date}

\* Tenant.verify_subscription with `sub` the row get_active_subscription returned
\* (None when it returned no row).
verify_subscription(sub, today) ==
    IF sub = None THEN SubscriptionExpired ELSE verify_access(sub, today)

\* The answers get_active_subscription may give: a row, or None.
FirstOrNone(rows) == IF rows = {} THEN {None} ELSE rows

\* ---------------------------------------------------------------- models.py: Plan

\* An integer where None is possible too.
Int(n) == [int |-> n]

\* A limit: None (unlimited) or a PositiveIntegerField value.
Limits == {None} \cup {Int(n) : n \in 0 .. MaxLimit}

\* The keys callers ask about.
LimitKeys == {"max_users", "max_vehicles"}

\* extra_limits: a JSON object, some keys with a number or null.
ExtraLimits == UNION {[K -> Limits] : K \in SUBSET LimitKeys}

Plans == [max_users : Limits, max_records : Limits, extra_limits : ExtraLimits]

get_or_zero(dict, key) == IF key \in DOMAIN dict THEN dict[key] ELSE Int(0)

\* dict.get
get(dict, key) == IF key \in DOMAIN dict THEN dict[key] ELSE None

\* Plan.get_limit
get_limit(plan, key) == get(plan.extra_limits, key)

exceeds_strict(count, limit) == count > limit.int

\* Line 161 of Tenant.verify_limit: queryset.count() >= limit
exceeds(count, limit) == count >= limit.int

\* Tenant.verify_limit with `sub` the row get_active_subscription returned, `plan`
\* its plan and `count` the queryset's count: the exception raised (NoneStr when
\* it returns) and the exception's limit_key.
verify_limit(sub, plan, key, count) ==
    IF sub = None THEN [raises |-> SubscriptionExpired, limit_key |-> NoneStr]
    ELSE IF get_limit(plan, key) = None THEN [raises |-> NoneStr, limit_key |-> NoneStr]
    ELSE IF exceeds(count, get_limit(plan, key))
    THEN [raises |-> PlanLimitExceeded, limit_key |-> key]
    ELSE [raises |-> NoneStr, limit_key |-> NoneStr]

\* ---------------------------------------------------------------- permissions.py

\* settings.IMPERSONATION_GROUPS, at its default.
get_impersonation_groups == {"SuperAdmin"}

Groups == {"SuperAdmin", "Support"}

\* request.user: the fields of the Django user the pipeline reads.
Users == [is_staff : BOOLEAN, is_superuser : BOOLEAN, groups : {{}, {"SuperAdmin"}, {"Support"}}]

can_impersonate(user) ==
    IF ~user.is_staff THEN FALSE
    ELSE IF user.is_superuser THEN TRUE
    ELSE user.groups \cap get_impersonation_groups # {}

\* rest_framework.exceptions.PermissionDenied
PermissionDenied == "PermissionDenied"

Roles == {"admin", "driver"}

Permissions == {"create", "delete"}

\* settings.ROLE_PERMISSIONS: {} (also when the setting is absent), or a dict that
\* gives "admin" some permissions and does not name "driver".
RolePermissions == {<< >>} \cup {[r \in {"admin"} |-> P] : P \in SUBSET Permissions}

\* settings.ROLES_WITH_GLOBAL_VIEW (set() when the setting is absent).
RolesWithGlobalView == SUBSET Roles

\* A membership row of the concrete TENANT_MEMBERSHIP_MODEL; subsidiary is NoneStr
\* when the row has none.  Users are members of subsidiary S1 only: the records
\* they are shown come from S1, S2 and no subsidiary.
MembershipRows == [role : Roles, is_active : BOOLEAN, subsidiary : {"S1", NoneStr}]

\* The sets of at most n membership rows.
RECURSIVE MembershipSets(_)
MembershipSets(n) ==
    IF n = 0 THEN {{}}
    ELSE LET smaller == MembershipSets(n - 1)
         IN  smaller \cup {S \cup {m} : S \in smaller, m \in MembershipRows}

\* django.contrib.auth.models.AnonymousUser
AnonymousUser ==
    [is_authenticated |-> FALSE, is_staff |-> FALSE, is_superuser |-> FALSE, groups |-> {}]

AuthenticatedUsers ==
    [is_authenticated : {TRUE}, is_staff : BOOLEAN, is_superuser : BOOLEAN,
     groups : {{}, {"SuperAdmin"}, {"Support"}}]

\* request.user: None, the anonymous user, or an authenticated user.
RequestUsers == {None, AnonymousUser} \cup AuthenticatedUsers

\* A call that returned `value`, leaving the request as `request`.
Return(request, value) == [request |-> request, raises |-> NoneStr, value |-> value]

\* A call that raised `exc`.
Raise(request, exc) == [request |-> request, raises |-> exc]

\* A decorated view: whether view_func ran, and the exception the wrapper raised.
Wrapped(request, executed, exc) == [request |-> request, raises |-> exc, executed |-> executed]

hasattr(request, name) == name \in DOMAIN request.attrs

setattr(request, name, value) ==
    LET a == request.attrs
    IN  [request EXCEPT !.attrs = [k \in DOMAIN a \cup {name} |-> IF k = name THEN value ELSE a[k]]]

objects_get_any(user, rows) ==
    IF user = None THEN {[raises |-> Fault]}
    ELSE IF ~user.is_authenticated THEN {[raises |-> "DoesNotExist"], [raises |-> Fault]}
    ELSE IF rows = {} THEN {[raises |-> "DoesNotExist"]}
    ELSE IF Cardinality(rows) = 1 THEN {[returns |-> m] : m \in rows}
    ELSE {[raises |-> "MultipleObjectsReturned"]}

\* MembershipModel.objects.get(user=request.user, is_active=True), `rows` being the
\* rows with user = request.user: what the query may do.  For a user that is not a
\* saved user row (AnonymousUser) the lookup finds nothing or fails on the value.
objects_get(user, rows) ==
    LET active == {m \in rows : m.is_active}
    IN  IF user = None THEN {[raises |-> Fault]}
        ELSE IF ~user.is_authenticated THEN {[raises |-> "DoesNotExist"], [raises |-> Fault]}
        ELSE IF active = {} THEN {[raises |-> "DoesNotExist"]}
        ELSE IF Cardinality(active) = 1 THEN {[returns |-> m] : m \in active}
        ELSE {[raises |-> "MultipleObjectsReturned"]}

\* get_user_role; `answer` is what MembershipModel.objects.get does if it is called.
get_user_role(request, answer) ==
    IF hasattr(request, "_user_role") THEN Return(request, request.attrs["_user_role"])
    ELSE IF request.user = None \/ ~request.user.is_authenticated
    THEN Return(setattr(request, "_user_role", NoneStr), NoneStr)
    ELSE IF request.user.is_staff
    THEN Return(setattr(request, "_user_role", NoneStr), NoneStr)
    ELSE IF "returns" \in DOMAIN answer
    THEN Return(setattr(request, "_user_role", answer.returns.role), answer.returns.role)
    ELSE IF answer.raises = "DoesNotExist"
    THEN Return(setattr(request, "_user_role", NoneStr), NoneStr)
    ELSE Raise(request, answer.raises)

\* get_user_subsidiary; request.user.is_staff on a None user is an AttributeError.
get_user_subsidiary(request, answer) ==
    IF hasattr(request, "_user_subsidiary")
    THEN Return(request, request.attrs["_user_subsidiary"])
    ELSE IF request.user = None THEN Raise(request, Fault)
    ELSE IF request.user.is_staff
    THEN Return(setattr(request, "_user_subsidiary", NoneStr), NoneStr)
    ELSE IF "returns" \in DOMAIN answer
    THEN Return(setattr(request, "_user_subsidiary", answer.returns.subsidiary),
                answer.returns.subsidiary)
    ELSE IF answer.raises = "DoesNotExist"
    THEN Return(setattr(request, "_user_subsidiary", NoneStr), NoneStr)
    ELSE Raise(request, answer.raises)

get_or_all(dict, key, default) ==
    IF key \in DOMAIN dict THEN dict[key] ELSE UNION {dict[k] : k \in DOMAIN dict}

\* dict.get(key, default)
get_or(dict, key, default) == IF key \in DOMAIN dict THEN dict[key] ELSE default

\* has_permission; `role_permissions` is what get_role_permissions() returns.
has_permission(request, permission, role_permissions, answer) ==
    LET role == get_user_role(request, answer)
    IN  IF role.raises # NoneStr THEN role
        ELSE IF role.value = NoneStr THEN Return(role.request, FALSE)
        ELSE Return(role.request, permission \in get_or(role_permissions, role.value, {}))

user_in_group_filter_only(user, groups) == user.groups \cap groups # {}

\* user_in_group(user, *groups)
user_in_group(user, groups) ==
    IF user.is_superuser THEN TRUE ELSE user.groups \cap groups # {}

\* A record of the queryset RoleFilterMixin filters: subsidiary is NoneStr when the
\* record has none.
Records ==
    { [id |-> "a", subsidiary |-> "S1"], [id |-> "b", subsidiary |-> "S2"],
      [id |-> "c", subsidiary |-> NoneStr] }

\* super().get_queryset(): every record, or the records outside S1.
Querysets == {Records, {x \in Records : x.subsidiary # "S1"}}

scope_fail_open(qs, subsidiary) ==
    IF subsidiary # NoneStr THEN {x \in qs : x.subsidiary = subsidiary} ELSE qs

\* Lines 184-188 of RoleFilterMixin.get_queryset: qs.filter(subsidiary=...) or qs.none()
scope(qs, subsidiary) ==
    IF subsidiary # NoneStr THEN {x \in qs : x.subsidiary = subsidiary} ELSE {}

\* RoleFilterMixin.get_queryset; `qs` is super().get_queryset() and
\* `roles_with_global_view` what get_roles_with_global_view() returns.
get_queryset(request, qs, roles_with_global_view, answer) ==
    IF request.user = None THEN Raise(request, Fault)
    ELSE IF request.user.is_staff THEN Return(request, qs)
    ELSE LET role == get_user_role(request, answer)
         IN  IF role.raises # NoneStr THEN role
             ELSE IF role.value \in roles_with_global_view THEN Return(role.request, qs)
             ELSE LET subsidiary == get_user_subsidiary(role.request, answer)
                  IN  IF subsidiary.raises # NoneStr THEN subsidiary
                      ELSE Return(subsidiary.request, scope(qs, subsidiary.value))

\* The wrapper of require_permission(permission).
require_permission(request, permission, role_permissions, answer) ==
    LET allowed == has_permission(request, permission, role_permissions, answer)
    IN  IF allowed.raises # NoneStr THEN Wrapped(allowed.request, FALSE, allowed.raises)
        ELSE IF ~allowed.value THEN Wrapped(allowed.request, FALSE, PermissionDenied)
        ELSE Wrapped(allowed.request, TRUE, NoneStr)

\* The wrapper of roles_required(*roles).
roles_required(request, roles, answer) ==
    LET role == get_user_role(request, answer)
    IN  IF role.raises # NoneStr THEN Wrapped(role.request, FALSE, role.raises)
        ELSE IF role.value \notin roles THEN Wrapped(role.request, FALSE, PermissionDenied)
        ELSE Wrapped(role.request, TRUE, NoneStr)

\* The wrapper of groups_required(*groups).
groups_required(request, groups) ==
    IF request.user = None THEN Wrapped(request, FALSE, Fault)
    ELSE IF ~user_in_group(request.user, groups) THEN Wrapped(request, FALSE, PermissionDenied)
    ELSE Wrapped(request, TRUE, NoneStr)

\* ---------------------------------------------------------------- middleware.py

\* A path is the sequence of its "/" separators and segments.
PUBLIC_PATHS ==
    { <<"/", "api", "/", "auth", "/", "login", "/">>,
      <<"/", "api", "/", "auth", "/", "token", "/", "refresh", "/">>,
      <<"/", "api", "/", "auth", "/", "register", "/">>,
      <<"/", "admin", "/">>,
      <<"/", "health", "/">> }

\* str.startswith
startswith(s, p) == Len(p) <= Len(s) /\ SubSeq(s, 1, Len(p)) = p

has_impersonation_header_present(header) == header # NoneStr

is_public_exact(path) == path \in PUBLIC_PATHS

\* TenantMiddleware._is_public
is_public(path) == \E p \in PUBLIC_PATHS : startswith(path, p)

\* TenantMiddleware._has_impersonation_header: bool(request.headers.get("X-Tenant-ID"))
has_impersonation_header(header) == header # NoneStr /\ header # ""

\* What jwt_auth.authenticate may do: return None (no credential), raise
\* InvalidToken or TokenError, return (user, token), or raise anything else.
AuthResults(users) ==
    {None} \cup {[raises |-> e] : e \in {"InvalidToken", "TokenError", Fault}} \cup users

\* TenantMiddleware._authenticate_jwt on a result it does not let propagate.
authenticate_jwt(result) ==
    IF result \in {None, [raises |-> "InvalidToken"], [raises |-> "TokenError"]}
    THEN None ELSE result

TenantIds == {"A", "B"}

\* A Tenant row: the fields the pipeline reads.
Tenants == [id : TenantIds, is_active : BOOLEAN]

\* TenantMiddleware._get_tenant_for_user, the extension point: what an
\* implementation may do for `user`.  It returns the user's tenant (for staff, the
\* tenant the X-Tenant-ID header names, marking request.is_impersonating), returns
\* None, raises TenantNotFound, or raises something else (the base implementation
\* raises NotImplementedError).
get_tenant_for_user(user, header, tenants) ==
    {[returns |-> t, raises |-> NoneStr, marks |-> user.is_staff] :
        t \in {x \in tenants : user.is_staff => x.id = header}}
    \cup {[returns |-> None, raises |-> NoneStr, marks |-> FALSE]}
    \cup {[returns |-> None, raises |-> e, marks |-> FALSE] : e \in {TenantNotFound, Fault}}

\* JsonResponse(..., status=...) built by the pipeline.
JsonResponse(status, code) == [status |-> status, code |-> code, by |-> "pipeline"]

\* Whatever self.get_response(request) returns.
HandlerResponse == [status |-> 200, code |-> NoneStr, by |-> "handler"]

except_clauses_one_code(exc) ==
    IF exc = TenantNotFound THEN JsonResponse(404, NoneStr)
    ELSE IF exc = TenantInactive THEN JsonResponse(403, NoneStr)
    ELSE IF exc \in {SubscriptionExpired, SubscriptionSuspended}
    THEN JsonResponse(402, "subscription_expired")
    ELSE None

except_clauses_catch_all(exc) ==
    IF exc = TenantNotFound THEN JsonResponse(404, NoneStr)
    ELSE IF exc = TenantInactive THEN JsonResponse(403, NoneStr)
    ELSE IF exc = SubscriptionExpired THEN JsonResponse(402, "subscription_expired")
    ELSE IF exc = SubscriptionSuspended THEN JsonResponse(402, "subscription_suspended")
    ELSE JsonResponse(400, NoneStr)

\* The except clauses of __call__: the response for a caught exception, None for
\* an exception no clause catches.
except_clauses(exc) ==
    IF exc = TenantNotFound THEN JsonResponse(404, NoneStr)
    ELSE IF exc = TenantInactive THEN JsonResponse(403, NoneStr)
    ELSE IF exc = SubscriptionExpired THEN JsonResponse(402, "subscription_expired")
    ELSE IF exc = SubscriptionSuspended THEN JsonResponse(402, "subscription_suspended")
    ELSE None

\* ---------------------------------------------------------------- decorators.py, mixins.py

\* A guarded view: whether the view body ran, and the exception raised instead.
Outcome(executed, exc) == [executed |-> executed, raises |-> exc]

\* getattr(request.user, "is_staff", False)
getattr_is_staff(user) == IF user = None THEN FALSE ELSE user.is_staff

tenant_required_any_user(tenant, user) ==
    IF tenant # None \/ user # None THEN Outcome(TRUE, NoneStr)
    ELSE Outcome(FALSE, PermissionDenied)

\* The wrapper of tenant_required, `tenant` being get_current_tenant();
\* request.user.is_staff on a None user is an AttributeError.
tenant_required(tenant, user) ==
    IF tenant # None THEN Outcome(TRUE, NoneStr)
    ELSE IF user = None THEN Outcome(FALSE, Fault)
    ELSE IF ~user.is_staff THEN Outcome(FALSE, PermissionDenied)
    ELSE Outcome(TRUE, NoneStr)

\* TenantRequiredMixin.dispatch
TenantRequiredMixin_dispatch(tenant, user) ==
    IF tenant = None /\ ~getattr_is_staff(user) THEN Outcome(FALSE, PermissionDenied)
    ELSE Outcome(TRUE, NoneStr)

\* The methods of Tenant (models.py).
TenantMethods == {"get_active_subscription", "verify_subscription", "verify_limit"}

\* A call of verify_limit under `except PlanLimitExceeded: raise PermissionDenied`.
limit_guarded(sub, plan, key, count) ==
    LET raised == verify_limit(sub, plan, key, count).raises
    IN  IF raised = PlanLimitExceeded THEN Outcome(FALSE, PermissionDenied)
        ELSE IF raised # NoneStr THEN Outcome(FALSE, raised)
        ELSE Outcome(TRUE, NoneStr)

\* The wrapper of plan_limit(key, get_queryset_func): it calls
\* tenant.verificar_limite(key, qs), an AttributeError on a Tenant without that
\* method.
plan_limit(tenant, key, sub, plan, count) ==
    IF tenant = None THEN Outcome(TRUE, NoneStr)
    ELSE IF "verificar_limite" \notin TenantMethods THEN Outcome(FALSE, Fault)
    ELSE limit_guarded(sub, plan, key, count)

\* PlanLimitMixin.perform_create; plan_limit_key is NoneStr when the view sets none.
PlanLimitMixin_perform_create(tenant, plan_limit_key, sub, plan, count) ==
    IF plan_limit_key # NoneStr /\ tenant # None
    THEN limit_guarded(sub, plan, plan_limit_key, count)
    ELSE Outcome(TRUE, NoneStr)

\* Rows of a TenantAwareModel: tenant_id is NoneStr for a row without tenant.
TenantRecords == [tenant_id : TenantIds \cup {NoneStr}]

\* qs.filter(tenant=tenant)
filter_tenant(qs, tenant) == {x \in qs : x.tenant_id = tenant.id}

\* TenantManager.get_queryset, `qs` being super().get_queryset().
TenantManager_get_queryset(tenant, qs) ==
    IF tenant # None THEN filter_tenant(qs, tenant) ELSE qs

\* TenantQuerysetMixin.get_queryset on a model with a tenant field.
TenantQuerysetMixin_get_queryset(tenant, qs) ==
    IF tenant # None THEN filter_tenant(qs, tenant) ELSE qs

\* AdminOrTenantMixin.get_queryset: the rows returned (user is not None).
AdminOrTenantMixin_get_queryset(tenant, user, qs) ==
    IF user.is_staff THEN qs
    ELSE IF tenant # None THEN filter_tenant(qs, tenant)
    ELSE {}

TenantAwareModel_save_overwrite(record, tenant) ==
    IF tenant # None THEN [record EXCEPT !.tenant_id = tenant.id] ELSE record

\* TenantAwareModel.save: the record as it is handed to Model.save.
TenantAwareModel_save(record, tenant) ==
    IF record.tenant_id = NoneStr /\ tenant # None
    THEN [record EXCEPT !.tenant_id = tenant.id]
    ELSE record

\* TenantAwareAdmin.save_model, which ends in obj.save().
TenantAwareAdmin_save_model(obj, tenant) ==
    TenantAwareModel_save(
        IF obj.tenant_id = NoneStr
        THEN [obj EXCEPT !.tenant_id = IF tenant = None THEN NoneStr ELSE tenant.id]
        ELSE obj,
        tenant)

\* ------------------------------------------------------------------ state

Requests == {"r1", "r2"}

VARIABLES
    req,            \* req[r]: the request in slot r and the position of __call__ on it
    thread_locals,  \* thread_locals[w]: the tenant attribute of _thread_locals on thread w
    prev,           \* prev[w]: how the last __call__ that returned on thread w went
    subscriptions,  \* subscription guard check: the tenant's subscription rows
    today,          \* subscription guard check: timezone.now().date()
    checked,        \* guard and authorizer checks: the last call's arguments and result
    request,        \* authorizer checks: the request (its user and cached attributes)
    memberships     \* authorizer checks: the membership rows of request.user

pvars == <<req, thread_locals, prev>>
avars == <<request, memberships>>
gvars == <<subscriptions, today, checked, avars>>
vars == <<req, thread_locals, prev, subscriptions, today, checked, request, memberships>>

\* A free slot: no request.
IdleRequest ==
    [pc |-> "idle", worker |-> NoneStr, path |-> <<>>, user |-> NoAttr, header |-> "unread",
     tenant |-> NoAttr, request_tenant |-> NoAttr, is_impersonating |-> FALSE,
     guard |-> "unrun", sub_statuses |-> {}, exc |-> NoneStr, response |-> None,
     raised |-> NoneStr, in_try |-> FALSE, trace |-> <<>>]

NoPrev == [tenant |-> NoneStr, in_context |-> FALSE, ended |-> "never"]

InitPipeline ==
    /\ req = [r \in Requests |-> IdleRequest]
    /\ thread_locals = [w \in Threads |-> NoAttr]
    /\ prev = [w \in Threads |-> NoPrev]

NoCheck == [op |-> "none"]

\* No authorizer check: a request without a user.
IdleAuthorizer ==
    /\ request = [user |-> None, attrs |-> << >>]
    /\ memberships = {}

IdleGuards ==
    /\ subscriptions = {}
    /\ today = 0
    /\ checked = NoCheck
    /\ IdleAuthorizer

InFlight(r) == req[r].pc \notin {"idle", "done"}

Called(q, name) == \E i \in 1 .. Len(q.trace) : q.trace[i] = name

\* How a finished __call__ is remembered on its thread: the tenant it resolved,
\* whether it put it in the context, and how it ended.
Summary(q, ended) ==
    [tenant |-> IF q.tenant \in Tenants THEN q.tenant.id ELSE NoneStr,
     in_context |-> Called(q, "set_context"), ended |-> ended]

\* ------------------------------------------------------------------ __call__ step by step

\* A worker thread runs one __call__ at a time (synchronous workers).
ThreadFree(w) == \A o \in Requests : InFlight(o) => req[o].worker # w

Step(q, name) == Append(q.trace, name)

\* Lines 45-48: a request arrives in slot r on worker thread w.
Begin(r, w, path) ==
    /\ req[r].pc = "idle"
    /\ req' = [req EXCEPT ![r] =
            IF is_public(path)
            THEN [IdleRequest EXCEPT !.worker = w, !.path = path, !.is_impersonating = FALSE,
                                     !.pc = "handler", !.trace = <<"handler">>]
            ELSE [IdleRequest EXCEPT !.worker = w, !.path = path, !.is_impersonating = FALSE,
                                     !.pc = "authenticate", !.in_try = TRUE]]
    /\ UNCHANGED <<thread_locals, prev, gvars>>

\* Lines 51-59: `result` is what jwt_auth.authenticate does, `header` the request's
\* X-Tenant-ID header (read for staff users only).
Authenticate(r, result, header) ==
    LET q == req[r]
        t == Step(q, "authenticate")
        user == authenticate_jwt(result)
    IN  /\ q.pc = "authenticate"
        /\ req' = [req EXCEPT ![r] =
              IF result = [raises |-> Fault]
              THEN [q EXCEPT !.exc = Fault, !.pc = "finally", !.trace = t]
              ELSE IF user = None
              THEN [q EXCEPT !.user = None, !.response = JsonResponse(401, NoneStr),
                             !.pc = "finally", !.trace = t]
              ELSE IF user.is_staff /\ ~has_impersonation_header(header)
              THEN [q EXCEPT !.user = user, !.header = header, !.request_tenant = None,
                             !.pc = "handler", !.trace = Append(t, "handler")]
              ELSE [q EXCEPT !.user = user,
                             !.header = IF user.is_staff THEN header ELSE "unread",
                             !.pc = "resolve", !.trace = t]]
        /\ UNCHANGED <<thread_locals, prev, gvars>>

\* Lines 61-65: `answer` is what _get_tenant_for_user(user) does.
Resolve(r, answer) ==
    LET q == req[r]
        t == Step(q, "resolve")
    IN  /\ q.pc = "resolve"
        /\ req' = [req EXCEPT ![r] =
              IF answer.raises # NoneStr
              THEN [q EXCEPT !.exc = answer.raises, !.pc = "finally", !.trace = t]
              ELSE IF answer.returns = None
              THEN [q EXCEPT !.tenant = None, !.request_tenant = None,
                             !.pc = "handler", !.trace = Append(t, "handler")]
              ELSE [q EXCEPT !.tenant = answer.returns,
                             !.is_impersonating = (q.is_impersonating \/ answer.marks),
                             !.pc = "check_active", !.trace = t]]
        /\ UNCHANGED <<thread_locals, prev, gvars>>

tenant_inactive_never(q) == FALSE

tenant_inactive_unless_impersonating(q) == ~q.tenant.is_active /\ ~q.is_impersonating

\* Line 67: whether the tenant is rejected as inactive.
tenant_inactive(q) == ~q.tenant.is_active

\* Lines 67-68.
CheckActive(r) ==
    LET q == req[r]
        t == Step(q, "check_active")
    IN  /\ q.pc = "check_active"
        /\ req' = [req EXCEPT ![r] =
              IF tenant_inactive(q)
              THEN [q EXCEPT !.exc = TenantInactive, !.pc = "finally", !.trace = t]
              ELSE [q EXCEPT !.pc = "verify", !.trace = t]]
        /\ UNCHANGED <<thread_locals, prev, gvars>>

verifies_never(q) == FALSE

\* Line 72: whether the subscription is verified.
verifies(q) == ~q.is_impersonating

\* Lines 72-73: `subs` are the tenant's subscription rows, `sub` the row
\* get_active_subscription returns, `day` the current date.
VerifySubscription(r, subs, sub, day) ==
    LET q == req[r]
        result == verify_subscription(sub, day)
    IN  /\ q.pc = "verify"
        /\ sub \in FirstOrNone(get_active_subscription(subs))
        /\ req' = [req EXCEPT ![r] =
              IF ~verifies(q)
              THEN [q EXCEPT !.guard = "skipped", !.pc = "set_context"]
              ELSE IF result # NoneStr
              THEN [q EXCEPT !.guard = result, !.sub_statuses = {x.status : x \in subs},
                             !.exc = result, !.pc = "finally",
                             !.trace = Step(q, "verify_subscription")]
              ELSE [q EXCEPT !.guard = "ok", !.sub_statuses = {x.status : x \in subs},
                             !.pc = "set_context",
                             !.trace = Step(q, "verify_subscription")]]
        /\ UNCHANGED <<thread_locals, prev, gvars>>

\* Line 73 when the subscription query itself raises (a database error).
VerifySubscriptionFails(r) ==
    LET q == req[r]
    IN  /\ q.pc = "verify"
        /\ verifies(q)
        /\ req' = [req EXCEPT ![r] =
              [q EXCEPT !.guard = Fault, !.exc = Fault, !.pc = "finally",
                        !.trace = Step(q, "verify_subscription")]]
        /\ UNCHANGED <<thread_locals, prev, gvars>>

\* Lines 75-78, up to the call of get_response.
SetContext(r) ==
    LET q == req[r]
    IN  /\ q.pc = "set_context"
        /\ req' = [req EXCEPT ![r] =
              [q EXCEPT !.request_tenant = q.tenant, !.pc = "handler",
                        !.trace = Append(Step(q, "set_context"), "handler")]]
        /\ thread_locals' = set_current_tenant(thread_locals, q.worker, q.tenant)
        /\ UNCHANGED <<prev, gvars>>

\* get_response returns (lines 48, 59, 65, 78).  Line 48 is outside the try.
HandlerReturns(r) ==
    LET q == req[r]
    IN  /\ q.pc = "handler"
        /\ IF q.in_try
           THEN /\ req' = [req EXCEPT ![r] = [q EXCEPT !.response = HandlerResponse,
                                                      !.pc = "finally"]]
                /\ UNCHANGED prev
           ELSE /\ req' = [req EXCEPT ![r] = [q EXCEPT !.response = HandlerResponse,
                                                      !.pc = "done"]]
                /\ prev' = [prev EXCEPT ![q.worker] = Summary(q, "returned")]
        /\ UNCHANGED <<thread_locals, gvars>>

\* get_response raises e.
HandlerRaises(r, e) ==
    LET q == req[r]
    IN  /\ q.pc = "handler"
        /\ IF q.in_try
           THEN /\ req' = [req EXCEPT ![r] = [q EXCEPT !.exc = e, !.pc = "finally"]]
                /\ UNCHANGED prev
           ELSE /\ req' = [req EXCEPT ![r] = [q EXCEPT !.exc = e, !.raised = e,
                                                      !.pc = "done"]]
                /\ prev' = [prev EXCEPT ![q.worker] = Summary(q, "raised")]
        /\ UNCHANGED <<thread_locals, gvars>>

\* Lines 80-97: the except clauses, the finally clause, and the return.
Finally(r) ==
    LET q == req[r]
        caught == except_clauses(q.exc)
        propagates == q.exc # NoneStr /\ caught = None
        response == IF q.exc = NoneStr THEN q.response ELSE caught
    IN  /\ q.pc = "finally"
        /\ req' = [req EXCEPT ![r] =
              [q EXCEPT !.response = response,
                        !.raised = IF propagates THEN q.exc ELSE NoneStr,
                        !.pc = "done", !.trace = Step(q, "clear")]]
        /\ thread_locals' = clear_current_tenant(thread_locals, q.worker)
        /\ prev' = [prev EXCEPT ![q.worker] =
              Summary(q, IF propagates THEN "raised"
                         ELSE IF response.by = "handler" THEN "returned" ELSE "rejected")]
        /\ UNCHANGED gvars

\* __call__ has returned; the slot takes the next request.
End(r) ==
    /\ req[r].pc = "done"
    /\ req' = [req EXCEPT ![r] = IdleRequest]
    /\ UNCHANGED <<thread_locals, prev, gvars>>

\* ------------------------------------------------------------------ the pipeline's inputs

Health == <<"/", "health", "/">>
HealthLive == <<"/", "health", "/", "live", "/">>
AdminNoSlash == <<"/", "admin">>
Login == <<"/", "api", "/", "auth", "/", "login", "/">>
Vehicles == <<"/", "api", "/", "vehicles", "/">>

Paths == {Health, HealthLive, AdminNoSlash, Login, Vehicles}

\* X-Tenant-ID: absent, empty, or naming a tenant.
Headers == {NoneStr, ""} \cup TenantIds

HandlerExceptions == {Fault} \cup ModeledExceptions

\* The steps of the request in slot r after line 48, with inputs from the given
\* sets: users Us, X-Tenant-ID headers Hs, tenant rows Ts, subscription row sets Ss,
\* dates Ds, handler exceptions Es.
Steps(r, Us, Hs, Ts, Ss, Ds, Es) ==
    \/ /\ req[r].pc = "authenticate"
       /\ \E a \in AuthResults(Us), h \in Hs : Authenticate(r, a, h)
    \/ /\ req[r].pc = "resolve"
       /\ \E a \in get_tenant_for_user(req[r].user, req[r].header, Ts) : Resolve(r, a)
    \/ CheckActive(r)
    \/ /\ req[r].pc = "verify"
       /\ \E subs \in Ss, day \in Ds :
             \E sub \in FirstOrNone(get_active_subscription(subs)) :
                 VerifySubscription(r, subs, sub, day)
    \/ VerifySubscriptionFails(r)
    \/ SetContext(r)
    \/ HandlerReturns(r)
    \/ \E e \in Es : HandlerRaises(r, e)
    \/ Finally(r)
    \/ End(r)

\* The steps of the requests in slots Rs on threads Ws, one __call__ per thread at a
\* time, with paths from Ps and the other inputs as in Steps.
Pipeline(Rs, Ws, Ps, Us, Hs, Ts, Ss, Ds, Es) ==
    \E r \in Rs :
        \/ \E w \in Ws, p \in Ps : ThreadFree(w) /\ Begin(r, w, p)
        \/ Steps(r, Us, Hs, Ts, Ss, Ds, Es)

\* One worker thread serving one request after another.
Init == InitPipeline /\ IdleGuards

Next ==
    Pipeline({"r1"}, {"w1"}, Paths, Users, Headers, Tenants, RowSets(1), Days,
             HandlerExceptions)

Spec == Init /\ [][Next]_vars

\* Requests in flight at the same time on two worker threads, each thread serving
\* one request after another.
NormalUser == [is_staff |-> FALSE, is_superuser |-> FALSE, groups |-> {}]
SuperAdminStaff == [is_staff |-> TRUE, is_superuser |-> FALSE, groups |-> {"SuperAdmin"}]
ActiveTenants == {t \in Tenants : t.is_active}
ValidSubscription == [status |-> "active", start_date |-> 0, end_date |-> MaxDay]

OneThread(r, w) ==
    Pipeline({r}, {w}, {Vehicles, Health}, {NormalUser, SuperAdminStaff}, {NoneStr, "A"},
             ActiveTenants, {{}, {ValidSubscription}}, {MaxDay}, {Fault})

NextConcurrent == OneThread("r1", "w1") \/ OneThread("r2", "w2")

SpecConcurrent == Init /\ [][NextConcurrent]_vars

\* Requests multiplexed as tasks on the one worker thread w1 (an event loop, green
\* threads): a task is suspended only inside get_response, so a request takes a
\* step only while every other request is idle, finished, or waiting in its handler.
TaskRuns(r) == \A o \in Requests \ {r} : req[o].pc \in {"idle", "handler", "done"}

NextTasks ==
    \E r \in Requests :
        /\ TaskRuns(r)
        /\ \/ \E p \in {Vehicles, Health} : Begin(r, "w1", p)
           \/ Steps(r, {NormalUser, SuperAdminStaff}, {NoneStr, "A"}, ActiveTenants,
                    {{}, {ValidSubscription}}, {MaxDay}, {Fault})

SpecTasks == Init /\ [][NextTasks]_vars

\* ------------------------------------------------------------------ the guards alone

\* tenant.verify_subscription() on a tenant with the rows `subscriptions`.
CallVerifySubscription(sub) ==
    /\ checked = NoCheck
    /\ sub \in FirstOrNone(get_active_subscription(subscriptions))
    /\ checked' = [op |-> "verify_subscription", sub |-> sub,
                   raises |-> verify_subscription(sub, today)]
    /\ UNCHANGED <<pvars, subscriptions, today, avars>>

InitSubscription ==
    /\ InitPipeline
    /\ subscriptions \in RowSets(MaxSubs)
    /\ today \in Days
    /\ checked = NoCheck
    /\ IdleAuthorizer

NextSubscription ==
    \E sub \in FirstOrNone(get_active_subscription(subscriptions)) : CallVerifySubscription(sub)

SpecSubscription == InitSubscription /\ [][NextSubscription]_vars

\* tenant.verify_limit(key, queryset) on a tenant with the rows `subscriptions`,
\* where the returned row's plan is `plan` and queryset.count() is `count`.
CallVerifyLimit(sub, plan, key, count) ==
    /\ checked = NoCheck
    /\ sub \in FirstOrNone(get_active_subscription(subscriptions))
    /\ checked' = [op |-> "verify_limit", sub |-> sub, plan |-> plan, key |-> key,
                   count |-> count, result |-> verify_limit(sub, plan, key, count)]
    /\ UNCHANGED <<pvars, subscriptions, today, avars>>

InitLimit ==
    /\ InitPipeline
    /\ subscriptions \in RowSets(1)
    /\ today = 0
    /\ checked = NoCheck
    /\ IdleAuthorizer

NextLimit ==
    /\ checked = NoCheck
    /\ \E sub \in FirstOrNone(get_active_subscription(subscriptions)), plan \in Plans,
          key \in LimitKeys, count \in 0 .. MaxLimit + 1 :
           CallVerifyLimit(sub, plan, key, count)

SpecLimit == InitLimit /\ [][NextLimit]_vars

\* ------------------------------------------------------------------ the authorizer alone

\* One request with the user `request.user`, whose membership rows are
\* `memberships`; the helpers of permissions.py are called on it one after another.
\* Each call leaves its arguments and result in `checked` and the request's cached
\* attributes in `request`.
Call(op, args, result) ==
    /\ checked' = [op |-> op, args |-> args, result |-> result]
    /\ request' = result.request
    /\ UNCHANGED <<pvars, subscriptions, today, memberships>>

CallGetUserRole(answer) ==
    Call("get_user_role", << >>, get_user_role(request, answer))

CallGetUserSubsidiary(answer) ==
    Call("get_user_subsidiary", << >>, get_user_subsidiary(request, answer))

CallHasPermission(permission, role_permissions, answer) ==
    Call("has_permission", [permission |-> permission, role_permissions |-> role_permissions],
         has_permission(request, permission, role_permissions, answer))

CallRequirePermission(permission, role_permissions, answer) ==
    Call("require_permission",
         [permission |-> permission, role_permissions |-> role_permissions],
         require_permission(request, permission, role_permissions, answer))

CallRolesRequired(roles, answer) ==
    Call("roles_required", [roles |-> roles], roles_required(request, roles, answer))

CallUserInGroup(groups) ==
    Call("user_in_group", [groups |-> groups],
         IF request.user = None THEN Raise(request, Fault)
         ELSE Return(request, user_in_group(request.user, groups)))

CallGroupsRequired(groups) ==
    Call("groups_required", [groups |-> groups], groups_required(request, groups))

CallGetQueryset(qs, roles_with_global_view, answer) ==
    Call("get_queryset", [qs |-> qs, roles_with_global_view |-> roles_with_global_view],
         get_queryset(request, qs, roles_with_global_view, answer))

InitPermissions ==
    /\ InitPipeline
    /\ subscriptions = {}
    /\ today = 0
    /\ checked = NoCheck
    /\ request \in {[user |-> u, attrs |-> << >>] : u \in RequestUsers}
    /\ memberships \in MembershipSets(MaxMemberships)

NextPermissions ==
    \/ \E answer \in objects_get(request.user, memberships) :
          \/ CallGetUserRole(answer)
          \/ CallGetUserSubsidiary(answer)
          \/ \E permission \in Permissions, role_permissions \in RolePermissions :
                \/ CallHasPermission(permission, role_permissions, answer)
                \/ CallRequirePermission(permission, role_permissions, answer)
          \/ \E roles \in SUBSET Roles : CallRolesRequired(roles, answer)
          \/ \E qs \in Querysets, roles_with_global_view \in RolesWithGlobalView :
                CallGetQueryset(qs, roles_with_global_view, answer)
    \/ \E groups \in SUBSET Groups : CallUserInGroup(groups) \/ CallGroupsRequired(groups)

SpecPermissions == InitPermissions /\ [][NextPermissions]_vars

\* ------------------------------------------------------------------ the handler's calls

\* While get_response runs, the view layer is called once on the request's thread:
\* a guard of decorators.py / mixins.py, a queryset of a scoping layer, or a save.
\* `user` is request.user as the view sees it: the user the pipeline authenticated,
\* or anyone (None too) on a public path.
ViewCall(r, user, op, args, result) ==
    /\ req[r].pc = "handler"
    /\ checked = NoCheck
    /\ req[r].user \in Users => user = req[r].user
    /\ checked' = [op |-> op, request |-> r, user |-> user, args |-> args, result |-> result]
    /\ UNCHANGED <<pvars, subscriptions, today, avars>>

\* get_current_tenant() on the thread of request r.
Context(r) == get_current_tenant(thread_locals, req[r].worker)

CallTenantRequired(r, user) ==
    ViewCall(r, user, "tenant_required", << >>, tenant_required(Context(r), user))

CallDispatch(r, user) ==
    ViewCall(r, user, "dispatch", << >>, TenantRequiredMixin_dispatch(Context(r), user))

CallPlanLimit(r, user, key, sub, plan, count) ==
    ViewCall(r, user, "plan_limit", [key |-> key, sub |-> sub, plan |-> plan, count |-> count],
             plan_limit(Context(r), key, sub, plan, count))

CallPerformCreate(r, user, key, sub, plan, count) ==
    ViewCall(r, user, "perform_create",
             [key |-> key, sub |-> sub, plan |-> plan, count |-> count],
             PlanLimitMixin_perform_create(Context(r), key, sub, plan, count))

CallManagerQueryset(r, user) ==
    ViewCall(r, user, "TenantManager.get_queryset", << >>,
             TenantManager_get_queryset(Context(r), TenantRecords))

CallMixinQueryset(r, user) ==
    ViewCall(r, user, "TenantQuerysetMixin.get_queryset", << >>,
             TenantQuerysetMixin_get_queryset(Context(r), TenantRecords))

CallAdminOrTenantQueryset(r, user) ==
    /\ user # None
    /\ ViewCall(r, user, "AdminOrTenantMixin.get_queryset", << >>,
                AdminOrTenantMixin_get_queryset(Context(r), user, TenantRecords))

CallSave(r, user, record) ==
    ViewCall(r, user, "save", [record |-> record], TenantAwareModel_save(record, Context(r)))

CallSaveModel(r, user, record) ==
    ViewCall(r, user, "save_model", [record |-> record],
             TenantAwareAdmin_save_model(record, Context(r)))

\* The plans of the handler's limit checks: no limit anywhere, or max_vehicles in
\* extra_limits.
VehiclePlans ==
    {[max_users |-> None, max_records |-> None, extra_limits |-> e] :
        e \in {<< >>} \cup {[k \in {"max_vehicles"} |-> l] : l \in Limits}}

ViewUsers == {None, NormalUser, SuperAdminStaff}

HandlerCalls(r) ==
    \E user \in ViewUsers :
        \/ CallTenantRequired(r, user)
        \/ CallDispatch(r, user)
        \/ \E sub \in {None, ValidSubscription}, plan \in VehiclePlans,
              count \in 0 .. MaxLimit + 1 :
                \/ CallPlanLimit(r, user, "max_vehicles", sub, plan, count)
                \/ \E key \in {NoneStr, "max_vehicles"} :
                      CallPerformCreate(r, user, key, sub, plan, count)
        \/ CallManagerQueryset(r, user)
        \/ CallMixinQueryset(r, user)
        \/ CallAdminOrTenantQueryset(r, user)
        \/ \E record \in TenantRecords : CallSave(r, user, record) \/ CallSaveModel(r, user, record)

\* One worker thread serving requests until a handler has made its call; that
\* request is served to its end.
NextHandler ==
    \E r \in {"r1"} :
        \/ \E p \in {Vehicles, Health} : checked = NoCheck /\ Begin(r, "w1", p)
        \/ Steps(r, {NormalUser, SuperAdminStaff}, {NoneStr, "A"}, Tenants,
                 {{}, {ValidSubscription}}, {0}, {Fault})
        \/ HandlerCalls(r)

SpecHandler == Init /\ [][NextHandler]_vars

\* ------------------------------------------------------------------ properties

Running(r) == req[r].pc = "handler"
Finished(r) == req[r].pc = "done"
Authenticated(q) == q.user \in Users
Resolved(q) == q.tenant \in Tenants

\* C1 (isolation across reuse of a worker): while the handler of a request that
\* resolved to a tenant B runs, get_current_tenant() on its thread is B, and is not
\* the tenant A of the request that thread served before, however that one ended.
C1_Isolation ==
    \A r \in Requests :
        LET q == req[r]
            seen == get_current_tenant(thread_locals, q.worker)
        IN  (Running(r) /\ Resolved(q)) =>
                /\ seen = q.tenant
                /\ prev[q.worker].tenant # q.tenant.id =>
                       (seen \in Tenants /\ seen.id # prev[q.worker].tenant)

\* A request for tenant B is in its handler on a thread whose previous request had
\* tenant A in the context and ended with an exception.
C1_Witness ==
    \E r \in Requests :
        /\ Running(r) /\ Resolved(req[r]) /\ req[r].tenant.id = "B"
        /\ prev[req[r].worker] = [tenant |-> "A", in_context |-> TRUE, ended |-> "raised"]

\* C2 (context clearance on every exit path): once __call__ has finished, with a
\* response, a rejection or an exception, get_current_tenant() on its thread is None.
C2_Cleared ==
    \A r \in Requests :
        Finished(r) => get_current_tenant(thread_locals, req[r].worker) = None

\* __call__ finished with an exception the handler raised after the tenant was put
\* in the context.
C2_Witness ==
    \E r \in Requests :
        /\ Finished(r) /\ req[r].raised = Fault
        /\ Called(req[r], "set_context") /\ Called(req[r], "handler")

\* What the pipeline resolved for the request: its tenant, or None.
ResolvedTenant(q) == IF Resolved(q) THEN q.tenant ELSE None

\* While a handler runs, get_current_tenant() on its thread is what the pipeline
\* resolved for that request.
C3_OwnTenant ==
    \A r \in Requests :
        Running(r) => get_current_tenant(thread_locals, req[r].worker) = ResolvedTenant(req[r])

\* A step that leaves an in-flight request where it is (a step of another request)
\* leaves get_current_tenant() on that request's thread as it was.
C3_Frame ==
    \A r \in Requests :
        (InFlight(r) /\ req'[r] = req[r]) =>
            get_current_tenant(thread_locals', req[r].worker)
                = get_current_tenant(thread_locals, req[r].worker)

\* C3 (concurrent isolation): with requests in flight at the same time on
\* different worker threads, the tenant a handler reads is the one resolved for its
\* own request, and no set or clear done for one request changes what another
\* in-flight request reads.
C3_ConcurrentIsolation == [](C3_OwnTenant) /\ [][C3_Frame]_vars

\* Two handlers run at the same time on different threads for different tenants.
C3_Witness ==
    /\ Running("r1") /\ Running("r2")
    /\ req["r1"].worker # req["r2"].worker
    /\ Resolved(req["r1"]) /\ Resolved(req["r2"])
    /\ req["r1"].tenant.id # req["r2"].tenant.id

\* The path starts with one of the PUBLIC_PATHS prefixes.
HasPublicPrefix(path) ==
    \E p \in PUBLIC_PATHS : Len(p) <= Len(path) /\ \A i \in 1 .. Len(p) : path[i] = p[i]

\* C4 (public-path purity): a request whose path starts with a PUBLIC_PATHS prefix
\* goes to the downstream handler and the pipeline never authenticates it, never
\* calls the resolver or the subscription guard, and never sets a tenant in the
\* context.
C4_PublicPurity ==
    \A r \in Requests :
        LET q == req[r]
        IN  (q.pc # "idle" /\ HasPublicPrefix(q.path)) =>
                /\ q.trace = <<"handler">>
                /\ q.user = NoAttr /\ q.tenant = NoAttr /\ q.guard = "unrun"
                /\ thread_locals[q.worker] \notin Tenants

\* A request for a path below a public prefix has been handled.
C4_Witness ==
    \E r \in Requests :
        /\ Finished(r) /\ req[r].path = HealthLive
        /\ req[r].response = HandlerResponse

NormalTenantMode(q) == ~q.user.is_staff /\ Resolved(q) /\ ~q.is_impersonating
GlobalOperatorMode(q) == q.user.is_staff /\ ~Resolved(q) /\ ~q.is_impersonating
ImpersonatingMode(q) == q.is_impersonating

\* C5 (impersonation exclusivity): an authenticated request in its handler is in
\* exactly one of the modes normal-tenant, global-operator, impersonating; the
\* subscription guard was skipped if it is impersonating and was run (and passed) if
\* it has a tenant and is not impersonating.
C5_Exclusivity ==
    \A r \in Requests :
        LET q == req[r]
        IN  (Running(r) /\ Authenticated(q)) =>
                /\ Cardinality({m \in {"normal", "global", "impersonating"} :
                        \/ m = "normal" /\ NormalTenantMode(q)
                        \/ m = "global" /\ GlobalOperatorMode(q)
                        \/ m = "impersonating" /\ ImpersonatingMode(q)}) = 1
                /\ q.is_impersonating => q.guard = "skipped"
                /\ (Resolved(q) /\ ~q.is_impersonating) => q.guard = "ok"

\* C6 (scenario C): a staff user who may not impersonate and sends X-Tenant-ID is
\* rejected with 403 before the named tenant is loaded; no handler runs for the
\* request with that tenant in the context.
C6_ScenarioC ==
    \A r \in Requests :
        LET q == req[r]
        IN  (/\ Authenticated(q) /\ q.user.is_staff /\ ~can_impersonate(q.user)
             /\ has_impersonation_header(q.header)) =>
                /\ ~Resolved(q)
                /\ ~Called(q, "set_context")
                /\ Finished(r) => (q.response = JsonResponse(403, NoneStr) /\ ~Called(q, "handler"))

\* The resolver found no tenant: it returned None or raised TenantNotFound.
ResolverFoundNone(q) ==
    \/ q.tenant = None
    \/ q.tenant = NoAttr /\ q.exc = TenantNotFound /\ Called(q, "resolve")

\* C7 (scenario D): a non-staff user for whom the resolver finds no tenant is
\* rejected with 404 and the downstream handler is never invoked.
C7_ScenarioD ==
    \A r \in Requests :
        LET q == req[r]
        IN  (Authenticated(q) /\ ~q.user.is_staff /\ ResolverFoundNone(q)) =>
                /\ ~Called(q, "handler")
                /\ Finished(r) => q.response = JsonResponse(404, NoneStr)

\* C8 (scenario E): a non-impersonated request of a non-staff user whose active
\* tenant's subscription is suspended or cancelled is rejected with
\* SubscriptionSuspended: 402 with code subscription_suspended.
C8_ScenarioE ==
    \A r \in Requests :
        LET q == req[r]
        IN  (/\ Authenticated(q) /\ ~q.user.is_staff /\ ~q.is_impersonating
             /\ Resolved(q) /\ q.tenant.is_active
             /\ q.guard \notin {"unrun", Fault}
             /\ q.sub_statuses # {} /\ q.sub_statuses \subseteq {"suspended", "cancelled"}) =>
                /\ q.guard = SubscriptionSuspended
                /\ ~Called(q, "handler")
                /\ Finished(r) => q.response = JsonResponse(402, "subscription_suspended")

\* C9 (subscription guard result): verify_subscription acts on a most recently
\* started row with status active; it raises SubscriptionExpired when no row is
\* active or when that row's end_date is before today, and returns when its
\* end_date is today or later.
C9_GuardResult ==
    LET active == {s \in subscriptions : s.status = "active"}
    IN  checked.op = "verify_subscription" =>
            IF active = {}
            THEN checked.sub = None /\ checked.raises = SubscriptionExpired
            ELSE /\ checked.sub \in active
                 /\ \A o \in active : o.start_date <= checked.sub.start_date
                 /\ checked.sub.end_date < today => checked.raises = SubscriptionExpired
                 /\ checked.sub.end_date >= today => checked.raises = NoneStr

\* The guard passed a tenant on the last day of the newer of its two active
\* subscriptions.
C9_Witness ==
    /\ checked.op = "verify_subscription" /\ checked.raises = NoneStr
    /\ checked.sub.end_date = today
    /\ \E o \in subscriptions :
          o.status = "active" /\ o.start_date < checked.sub.start_date /\ o.end_date < today

\* C10 (quota boundary): with an active subscription whose plan sets limit L for
\* the key, verify_limit returns for every count below L and raises
\* PlanLimitExceeded with limit_key = key for every count at or above L; limit 0
\* rejects every count.
C10_QuotaBoundary ==
    (/\ checked.op = "verify_limit" /\ checked.sub # None
     /\ checked.key \in DOMAIN checked.plan.extra_limits
     /\ checked.plan.extra_limits[checked.key] # None) =>
        LET L == checked.plan.extra_limits[checked.key].int
        IN  /\ checked.count < L => checked.result.raises = NoneStr
            /\ checked.count >= L =>
                   checked.result = [raises |-> PlanLimitExceeded, limit_key |-> checked.key]
            /\ L = 0 => checked.result.raises = PlanLimitExceeded

\* The count has just reached a limit above zero on max_vehicles and the call was
\* rejected.
C10_Witness ==
    /\ checked.op = "verify_limit" /\ checked.sub # None
    /\ checked.key = "max_vehicles"
    /\ checked.plan.extra_limits = [k \in {"max_vehicles"} |-> Int(MaxLimit)]
    /\ checked.count = MaxLimit
    /\ checked.result = [raises |-> PlanLimitExceeded, limit_key |-> "max_vehicles"]

\* C11 (quota lookup covers both sources): with an active subscription whose plan
\* has max_users = n and no "max_users" entry in extra_limits, verify_limit for key
\* "max_users" raises PlanLimitExceeded once the count has reached n.
C11_NamedFields ==
    (/\ checked.op = "verify_limit" /\ checked.sub # None
     /\ checked.key = "max_users"
     /\ "max_users" \notin DOMAIN checked.plan.extra_limits
     /\ checked.plan.max_users # None
     /\ checked.count >= checked.plan.max_users.int) =>
        checked.result = [raises |-> PlanLimitExceeded, limit_key |-> "max_users"]

\* The plan holds no value for the key: none in extra_limits, none in the field of
\* that name.
NoValue(plan, key) ==
    /\ key \in DOMAIN plan.extra_limits => plan.extra_limits[key] = None
    /\ key = "max_users" => plan.max_users = None
    /\ key = "max_records" => plan.max_records = None

\* C12 (unlimited quota): with an active subscription whose plan has no value for
\* the key, verify_limit does not raise PlanLimitExceeded, whatever the count.
C12_Unlimited ==
    (/\ checked.op = "verify_limit" /\ checked.sub # None
     /\ NoValue(checked.plan, checked.key)) =>
        checked.result.raises # PlanLimitExceeded

\* A plan without any value for max_vehicles passed the largest count, while its
\* limit on another key would have rejected that count.
C12_Witness ==
    /\ checked.op = "verify_limit" /\ checked.sub # None
    /\ checked.key = "max_vehicles" /\ checked.count = MaxLimit + 1
    /\ checked.plan.extra_limits = [k \in {"max_users"} |-> Int(0)]
    /\ checked.result.raises = NoneStr

\* C13 (tenant-activity check): a request that resolved to a tenant with
\* is_active = false, impersonating or not, never has the subscription guard run,
\* never has the tenant put in the context, never reaches the handler, and ends
\* rejected with TenantInactive: 403.
C13_InactiveRejected ==
    \A r \in Requests :
        LET q == req[r]
        IN  (Resolved(q) /\ ~q.tenant.is_active) =>
                /\ q.guard = "unrun" /\ ~Called(q, "verify_subscription")
                /\ ~Called(q, "set_context") /\ ~Called(q, "handler")
                /\ q.pc \in {"check_active", "finally", "done"}
                /\ q.pc \in {"finally", "done"} => q.exc = TenantInactive
                /\ Finished(r) =>
                       q.response = JsonResponse(403, NoneStr) /\ q.raised = NoneStr

\* An impersonating staff request for an inactive tenant was rejected with 403.
C13_Witness ==
    \E r \in Requests :
        /\ Finished(r) /\ Resolved(req[r]) /\ ~req[r].tenant.is_active
        /\ req[r].user.is_staff /\ req[r].is_impersonating
        /\ req[r].response = JsonResponse(403, NoneStr)

\* C14 (scenario B): for a staff user whose request has no X-Tenant-ID header (or
\* an empty one), the pipeline calls neither the resolver nor the subscription
\* guard, sets request.tenant to None, leaves the tenant context empty and
\* is_impersonating false, and invokes the handler.
C14_ScenarioB ==
    \A r \in Requests :
        LET q == req[r]
        IN  (Authenticated(q) /\ q.user.is_staff /\ q.header \in {NoneStr, ""}) =>
                /\ ~Called(q, "resolve") /\ q.tenant = NoAttr
                /\ ~Called(q, "verify_subscription") /\ q.guard = "unrun"
                /\ q.request_tenant = None
                /\ ~Called(q, "set_context")
                /\ get_current_tenant(thread_locals, q.worker) = None
                /\ ~q.is_impersonating
                /\ Called(q, "handler")

\* A staff request with an empty X-Tenant-ID header was answered by the handler.
C14_Witness ==
    \E r \in Requests :
        /\ Finished(r) /\ Authenticated(req[r]) /\ req[r].user.is_staff
        /\ req[r].header = "" /\ req[r].response = HandlerResponse

\* The status and code the pipeline answers an exception with.
StatusOf(exc) ==
    IF exc = TenantNotFound THEN <<404, NoneStr>>
    ELSE IF exc = TenantInactive THEN <<403, NoneStr>>
    ELSE IF exc = SubscriptionExpired THEN <<402, "subscription_expired">>
    ELSE <<402, "subscription_suspended">>

\* C15 (outcome-to-status mapping): a finished non-public request without a valid
\* credential has 401; one that ended with TenantNotFound has 404, TenantInactive
\* 403, SubscriptionExpired 402 subscription_expired, SubscriptionSuspended 402
\* subscription_suspended; in these cases the response is not the handler's; and
\* every response the pipeline itself built is one of these.
C15_StatusMapping ==
    \A r \in Requests :
        LET q == req[r]
            rejected == q.user = None \/ q.exc \in ModeledExceptions
        IN  (Finished(r) /\ q.in_try) =>
                /\ q.user = None =>
                       (q.response.status = 401 /\ ~Called(q, "handler"))
                /\ q.exc \in ModeledExceptions =>
                       <<q.response.status, q.response.code>> = StatusOf(q.exc)
                /\ rejected => (q.response # None /\ q.response.by = "pipeline")
                /\ (q.response # None /\ q.response.by = "pipeline") => rejected

\* The handler ran for a tenant and raised SubscriptionSuspended; the request was
\* answered 402 subscription_suspended.
C15_Witness ==
    \E r \in Requests :
        /\ Finished(r) /\ req[r].in_try /\ req[r].exc = SubscriptionSuspended
        /\ Called(req[r], "set_context")
        /\ req[r].response = JsonResponse(402, "subscription_suspended")

\* C16 (unexpected faults are not absorbed): an exception that is none of
\* TenantNotFound, TenantInactive, SubscriptionExpired, SubscriptionSuspended,
\* raised in the pipeline or by the handler, leaves __call__ unchanged, no response
\* is built for it, and the tenant context is empty when it leaves.
C16_FaultPropagates ==
    \A r \in Requests :
        LET q == req[r]
        IN  (Finished(r) /\ q.exc # NoneStr /\ q.exc \notin ModeledExceptions) =>
                /\ q.raised = q.exc
                /\ q.response = None
                /\ get_current_tenant(thread_locals, q.worker) = None

\* The resolver raised NotImplementedError (the base implementation) and it left
\* __call__.
C16_Witness ==
    \E r \in Requests :
        /\ Finished(r) /\ req[r].raised = Fault
        /\ Called(req[r], "resolve") /\ ~Called(req[r], "handler")
        /\ req[r].tenant = NoAttr

\* The active membership rows of request.user, and the one row when there is one.
ActiveMemberships == {m \in memberships : m.is_active}
TheMembership == CHOOSE m \in ActiveMemberships : TRUE

\* request.user is a principal with a membership role: authenticated, not staff.
Member(u) == u # None /\ u.is_authenticated /\ ~u.is_staff

\* The principal's role: NoneStr for a user that is None, anonymous, staff or
\* without an active membership, else the role of the active membership.
RoleOf(u) ==
    IF ~Member(u) \/ ActiveMemberships = {} THEN NoneStr ELSE TheMembership.role

\* The role is determined: the principal has no more than one active membership.
RoleKnown(u) == Member(u) => Cardinality(ActiveMemberships) <= 1

\* C17 (data scoping of RoleFilterMixin.get_queryset): a staff user gets every
\* record of the queryset; a member whose role is in the global-view set gets every
\* record of the queryset; every other member with a subsidiary gets exactly the
\* records of that subsidiary; a principal with no role, no active membership or no
\* subsidiary gets no record.
C17_DataScoping ==
    checked.op = "get_queryset" =>
        LET u == request.user
            qs == checked.args.qs
            returned == checked.result.raises = NoneStr
            seen == IF returned THEN checked.result.value ELSE {}
            one == Member(u) /\ Cardinality(ActiveMemberships) = 1
        IN  IF u # None /\ u.is_staff THEN returned /\ seen = qs
            ELSE IF one /\ TheMembership.role \in checked.args.roles_with_global_view
            THEN returned /\ seen = qs
            ELSE IF one /\ TheMembership.subsidiary # NoneStr
            THEN /\ returned
                 /\ seen = {x \in qs : x.subsidiary = TheMembership.subsidiary}
            ELSE /\ seen = {}
                 /\ (Member(u) /\ RoleKnown(u)) => returned

\* A driver of subsidiary S1, with an inactive second membership, got the one
\* record of S1 out of records of S1, S2 and no subsidiary.
C17_Witness ==
    /\ checked.op = "get_queryset" /\ checked.args.qs = Records
    /\ checked.args.roles_with_global_view = {"admin"}
    /\ Member(request.user)
    /\ memberships = {[role |-> "driver", is_active |-> TRUE, subsidiary |-> "S1"],
                      [role |-> "admin", is_active |-> FALSE, subsidiary |-> NoneStr]}
    /\ checked.result.raises = NoneStr
    /\ checked.result.value = {[id |-> "a", subsidiary |-> "S1"]}

\* The permission is in the policy's set for the principal's role.
Permitted(u, permission, role_permissions) ==
    /\ RoleOf(u) # NoneStr
    /\ RoleOf(u) \in DOMAIN role_permissions
    /\ permission \in role_permissions[RoleOf(u)]

\* C18 (has_permission and require_permission): has_permission is false when the
\* principal's role is none, and otherwise true exactly when the permission is in
\* the policy's set for the role (no set, no permission); a view wrapped in
\* require_permission runs exactly when has_permission is true and is otherwise
\* rejected with PermissionDenied.
C18_Permission ==
    LET u == request.user
    IN  /\ (checked.op = "has_permission" /\ RoleKnown(u)) =>
              /\ checked.result.raises = NoneStr
              /\ checked.result.value =
                     Permitted(u, checked.args.permission, checked.args.role_permissions)
        /\ checked.op = "require_permission" =>
              /\ checked.result.executed => checked.result.raises = NoneStr
              /\ RoleKnown(u) =>
                    /\ checked.result.executed =
                           Permitted(u, checked.args.permission, checked.args.role_permissions)
                    /\ ~checked.result.executed => checked.result.raises = PermissionDenied

\* A driver asked for a permission the policy gives to admin only, the policy not
\* naming the driver role: the view was rejected.
C18_Witness ==
    /\ checked.op = "require_permission"
    /\ Member(request.user) /\ RoleOf(request.user) = "driver"
    /\ checked.args.role_permissions = [r \in {"admin"} |-> Permissions]
    /\ checked.result = Wrapped(request, FALSE, PermissionDenied)

\* C19 (get_user_role and roles_required): get_user_role returns None for a staff
\* user and for an unauthenticated user, the role of the active membership for any
\* other principal that has one, and None when there is no active membership;
\* roles_required rejects every staff user and every principal without a
\* membership, and lets a member through exactly when their role is listed.
C19_UserRole ==
    LET u == request.user
        res == checked.result
    IN  /\ (checked.op = "get_user_role" /\ RoleKnown(u)) =>
              /\ res.raises = NoneStr
              /\ ~Member(u) => res.value = NoneStr
              /\ (Member(u) /\ ActiveMemberships = {}) => res.value = NoneStr
              /\ (Member(u) /\ ActiveMemberships # {}) => res.value = TheMembership.role
        /\ checked.op = "roles_required" =>
              /\ (~Member(u) \/ ActiveMemberships = {}) =>
                     (~res.executed /\ res.raises = PermissionDenied)
              /\ (Member(u) /\ Cardinality(ActiveMemberships) = 1) =>
                     res.executed = (TheMembership.role \in checked.args.roles)
              /\ res.executed => res.raises = NoneStr

\* A staff user who also has an active admin membership was rejected by
\* roles_required("admin").
C19_Witness ==
    /\ checked.op = "roles_required" /\ checked.args.roles = {"admin"}
    /\ request.user # None /\ request.user.is_staff
    /\ \E m \in ActiveMemberships : m.role = "admin"
    /\ checked.result = Wrapped(request, FALSE, PermissionDenied)
    /\ request.attrs["_user_role"] = NoneStr

\* C20 (user_in_group and groups_required): user_in_group is true for every
\* superuser whatever groups are named, none included, and for any other user exactly
\* when the user is in one of the named groups; a view wrapped in groups_required
\* runs exactly when user_in_group is true.
C20_UserInGroup ==
    LET u == request.user
        res == checked.result
        expected == u.is_superuser \/ \E g \in checked.args.groups : g \in u.groups
    IN  /\ (checked.op = "user_in_group" /\ u # None) =>
              (res.raises = NoneStr /\ res.value = expected)
        /\ (checked.op = "groups_required" /\ u # None) =>
              /\ res.executed = expected
              /\ res.executed => res.raises = NoneStr
              /\ ~res.executed => res.raises = PermissionDenied

\* A superuser in no group ran a view wrapped in groups_required().
C20_Witness ==
    /\ checked.op = "groups_required" /\ checked.args.groups = {}
    /\ request.user # None /\ request.user.is_superuser /\ request.user.groups = {}
    /\ checked.result = Wrapped(request, TRUE, NoneStr)

\* The place of a step in the order authenticate, resolve tenant, tenant-activity
\* check, subscription verification, set context, invoke handler, clear context.
Rank(step) ==
    CASE step = "authenticate" -> 1
      [] step = "resolve" -> 2
      [] step = "check_active" -> 3
      [] step = "verify_subscription" -> 4
      [] step = "set_context" -> 5
      [] step = "handler" -> 6
      [] step = "clear" -> 7

\* C21 (pipeline ordering): the steps of a non-public request occur in the order
\* authenticate, resolve, activity check, subscription verification, set context,
\* handler, clear; the resolver runs only for an authenticated user, the activity
\* check only for a resolved tenant, the subscription guard only for a resolved
\* active tenant, and the context is set only for an active tenant whose
\* subscription guard passed or was skipped for impersonation.
C21_Ordering ==
    \A r \in Requests :
        LET q == req[r]
            t == q.trace
        IN  (q.pc # "idle" /\ q.in_try) =>
                /\ \A i, j \in 1 .. Len(t) : i < j => Rank(t[i]) < Rank(t[j])
                /\ Len(t) > 0 => t[1] = "authenticate"
                /\ Called(q, "resolve") => Authenticated(q)
                /\ Called(q, "check_active") => (Called(q, "resolve") /\ Resolved(q))
                /\ Called(q, "verify_subscription") =>
                       (Called(q, "check_active") /\ Resolved(q) /\ q.tenant.is_active)
                /\ Called(q, "set_context") =>
                       /\ Called(q, "check_active") /\ q.tenant.is_active
                       /\ \/ Called(q, "verify_subscription") /\ q.guard = "ok"
                          \/ q.is_impersonating /\ q.guard = "skipped"
                /\ Called(q, "handler") => Authenticated(q)
                /\ (Called(q, "handler") /\ Resolved(q)) => Called(q, "set_context")
                /\ Finished(r) => t[Len(t)] = "clear"

\* A request went through every step.
C21_Witness ==
    \E r \in Requests :
        /\ Finished(r)
        /\ req[r].trace = <<"authenticate", "resolve", "check_active", "verify_subscription",
                            "set_context", "handler", "clear">>

\* C25 (handler-time consistency): while the handler of a non-public request runs,
\* get_current_tenant() is request.tenant, both the resolved tenant or both None,
\* and the context holds a tenant only if the tenant is active and its
\* subscription was verified in this request or the request is impersonating.
C25_HandlerConsistency ==
    \A r \in Requests :
        LET q == req[r]
            seen == get_current_tenant(thread_locals, q.worker)
        IN  (Running(r) /\ q.in_try) =>
                /\ seen = q.request_tenant
                /\ seen = ResolvedTenant(q)
                /\ seen # None =>
                      /\ seen.is_active
                      /\ q.guard = "ok" \/ q.is_impersonating

\* The handler runs for an impersonated tenant whose subscription was not looked at.
C25_Witness ==
    \E r \in Requests :
        /\ Running(r) /\ req[r].in_try /\ req[r].is_impersonating
        /\ req[r].guard = "skipped"
        /\ get_current_tenant(thread_locals, req[r].worker) = req[r].tenant
        /\ req[r].request_tenant = req[r].tenant

\* C22 (task-local context): with two in-flight requests interleaved as tasks on
\* one worker thread, a running handler never reads through get_current_tenant() the
\* tenant of the other request, and the context its own request set is not emptied
\* by the other request finishing.
C22_TaskLocal ==
    \A r \in Requests :
        LET q == req[r]
            seen == get_current_tenant(thread_locals, q.worker)
        IN  Running(r) =>
                /\ \A o \in Requests \ {r} :
                       (req[o].pc # "idle" /\ Resolved(req[o]) /\ seen = req[o].tenant) =>
                           (Resolved(q) /\ q.tenant = seen)
                /\ Called(q, "set_context") => seen # None

\* The request whose handler made the call recorded in `checked`.
Caller == req[checked.request]

\* The handler has just made the call `op` and has not returned yet.
JustCalled(ops) == checked.op \in ops /\ Caller.pc = "handler"

\* What get_current_tenant() gives in the handler that made the call.
CallContext == Context(checked.request)

\* C23 (the two plan-limit entry points agree): with a quota key, a current count
\* and the tenant's active subscription, a view under plan_limit and
\* PlanLimitMixin.perform_create both run the operation when the context holds no
\* tenant, when the plan has no limit for the key, or when the count is below the
\* limit, and both reject it with PermissionDenied when the count has reached it.
C23_EntryPointsAgree ==
    (/\ JustCalled({"plan_limit", "perform_create"})
     /\ checked.args.key # NoneStr /\ checked.args.sub # None) =>
        LET limits == checked.args.plan.extra_limits
            key == checked.args.key
            reached == /\ CallContext # None
                       /\ key \in DOMAIN limits /\ limits[key] # None
                       /\ checked.args.count >= limits[key].int
        IN  checked.result = IF reached THEN Outcome(FALSE, PermissionDenied)
                             ELSE Outcome(TRUE, NoneStr)

\* The rows of the caller's own tenant: none when the pipeline resolved no tenant.
OwnRecords ==
    IF Resolved(Caller) THEN {x \in TenantRecords : x.tenant_id = Caller.tenant.id} ELSE {}

\* C24 (no unscoped data access for normal users): in the handler of a request of
\* a non-staff user, TenantManager.get_queryset, TenantQuerysetMixin.get_queryset
\* and AdminOrTenantMixin.get_queryset return only rows of that user's own tenant,
\* and no row at all when the context holds no tenant.
C24_Scoped ==
    (/\ JustCalled({"TenantManager.get_queryset", "TenantQuerysetMixin.get_queryset",
                     "AdminOrTenantMixin.get_queryset"})
     /\ checked.user # None /\ ~checked.user.is_staff) =>
        /\ checked.result \subseteq OwnRecords
        /\ CallContext = None => checked.result = {}

C27_SaveKeepsTenant ==
    JustCalled({"save", "save_model"}) =>
        LET before == checked.args.record.tenant_id
            after == checked.result.tenant_id
        IN  /\ before # NoneStr => after = before
            /\ (before = NoneStr /\ CallContext # None) => after = CallContext.id
            /\ (before = NoneStr /\ CallContext = None) => after = NoneStr

\* A record of tenant A was saved while tenant B was in the context, and stayed
\* with tenant A.
C27_Witness ==
    /\ JustCalled({"save"}) /\ checked.args.record.tenant_id = "A"
    /\ CallContext # None /\ CallContext.id = "B"
    /\ checked.result.tenant_id = "A"

====
